---- MODULE Spec2Model ----
(***************************************************************************)
(* Model of elfshaker's batch file operations (src/batch.rs):              *)
(*   compute_checksums - parallel SHA-1 of a list of files                 *)
(*   compress_files    - sequential streaming of files into one encoder    *)
(* and of its list command (src/bin/elfshaker/list.rs):                    *)
(*   run, print_snapshots, format_snapshot_row                             *)
(***************************************************************************)
EXTENDS Integers, Sequences, FiniteSets, TLC

(* ------------------------------ bounds --------------------------------- *)
\* longest path list handed to compress_files
MaxPaths == 3
\* longest path list handed to compute_checksums
MaxChecksumPaths == 2
\* number of distinct files on disk
NumFiles == 2
\* number of threads in the rayon pool running compute_checksums
NumThreads == 2
\* most pack arguments given to the list command
MaxListPacks == 2

Files == 1..NumFiles
\* byte values: two are enough to tell the order of bytes
Bytes == {0, 1}
\* the values of opts tried; num_workers = 0 is the precondition violation
WorkerCounts == {0, 1, 2}
WindowLogs == {27}
Levels == {3}

SeqsUpTo(S, n) == UNION {[1..k -> S] : k \in 0..n}
\* file contents tried: empty, one byte, two bytes
Contents == {<<>>, <<0>>, <<1>>, <<0, 1>>}

(* Option<T> as a sequence of length at most one *)
None == <<>>
Some(x) == <<x>>

(* io::Result<T> *)
Pending == [kind |-> "pending", val |-> 0]
Ok(v) == [kind |-> "ok", val |-> v]
Err == [kind |-> "err", val |-> 0]
Panicked == [kind |-> "panic", val |-> 0]

VARIABLES
  fs,               \* the files on disk: file -> byte content
  object_paths,     \* compress_files: the list of file paths to process
  opts,             \* compress_files: CompressionOptions
  pc,               \* compress_files: position in the function body
  encoder,          \* compress_files: the zstd Encoder
  pack_file,        \* compress_files: the output writer
  i,                \* compress_files: loop index (0-based)
  file,             \* compress_files: the file opened at line 76 (0: none)
  bytes,            \* compress_files: result of io::copy
  processed_bytes,  \* compress_files: running total
  reporter,         \* calls received by ProgressReporter::checkpoint
  result,           \* compress_files: returned value
  trace,            \* compress_files: operations performed, in order
  paths,            \* compute_checksums: the listed paths
  tls_buf,          \* compute_checksums: the per-thread scratch buffer
  task,             \* compute_checksums: what each pool thread is doing
  todo,             \* compute_checksums: items of par_iter() not yet mapped
  mapped,           \* compute_checksums: the map closure's result per item
  reordered,        \* compute_checksums: an item completed before an earlier one
  reused,           \* compute_checksums: a buffer holding bytes was taken again
  checksums,        \* compute_checksums: returned value
  matches,          \* list: the parsed arguments (pack, format)
  repo,             \* list: the repository found from the working directory
  step,             \* list: position in run and print_snapshots
  packs,            \* list: the packs to print (pack_ids in print_snapshots)
  pack_no,          \* list: packs of pack_ids already collected
  snap_no,          \* list: snapshots of the current pack already visited
  lines,            \* list: the rows collected by print_snapshots
  stdout,           \* list: the lines printed
  run_result        \* list: returned value of run

compress_vars == <<object_paths, opts, pc, encoder, pack_file, i, file, bytes,
                   processed_bytes, reporter, result, trace>>
checksum_vars == <<paths, tls_buf, task, todo, mapped, reordered, reused,
                   checksums>>
list_vars == <<matches, repo, step, packs, pack_no, snap_no, lines, stdout,
               run_result>>
vars == <<fs, compress_vars, checksum_vars, list_vars>>

(* ---------------------------- compress_files --------------------------- *)

CompressionOptions ==
  [level : Levels, window_log : WindowLogs, num_workers : WorkerCounts]

NoEncoder == [created |-> FALSE, params |-> <<>>, input |-> <<>>, finished |-> 0]

\* an operation of the run: <<name, argument, succeeded>>
Op(name, arg, ok) == <<name, arg, ok>>

\* compress_files is called with some path list and some options
CompressCalled ==
  /\ object_paths \in SeqsUpTo(Files, MaxPaths)
  /\ opts \in CompressionOptions
  /\ pc = "assert"
  /\ encoder = NoEncoder
  /\ pack_file = [written |-> FALSE, complete |-> FALSE]
  /\ i = 0
  /\ file = 0
  /\ bytes = 0
  /\ processed_bytes = 0
  /\ reporter = <<>>
  /\ result = Pending
  /\ trace = <<>>

\* AssertWorkers with the assertion left out
AssertWorkers_unchecked ==
  /\ pc = "assert"
  /\ pc' = "new"
  /\ UNCHANGED <<fs, object_paths, opts, encoder, pack_file, i, file, bytes,
                 processed_bytes, reporter, result, trace, checksum_vars, list_vars>>

\* line 65: assert!(opts.num_workers > 0)
AssertWorkers ==
  /\ pc = "assert"
  /\ IF opts.num_workers > 0
       THEN pc' = "new" /\ result' = result
       ELSE pc' = "panic" /\ result' = Panicked
  /\ UNCHANGED <<fs, object_paths, opts, encoder, pack_file, i, file, bytes,
                 processed_bytes, reporter, trace, checksum_vars, list_vars>>

\* line 67: Encoder::new(pack_file, opts.level)?
EncoderNew ==
  /\ pc = "new"
  /\ \E ok \in BOOLEAN :
       /\ trace' = Append(trace, Op("new", opts.level, ok))
       /\ IF ok
            THEN /\ encoder' = [encoder EXCEPT !.created = TRUE]
                 /\ pc' = "nb_workers"
                 /\ result' = result
            ELSE /\ encoder' = encoder
                 /\ pc' = "err"
                 /\ result' = Err
  /\ UNCHANGED <<fs, object_paths, opts, pack_file, i, file, bytes,
                 processed_bytes, reporter, checksum_vars, list_vars>>

\* NbWorkers passing the total thread count on unchanged
NbWorkers_total(o) == [name |-> "NbWorkers", value |-> o.num_workers]

\* The three CParameter values of lines 69-71
NbWorkers(o) == [name |-> "NbWorkers", value |-> o.num_workers - 1]
EnableLongDistanceMatching(o) == [name |-> "EnableLongDistanceMatching", value |-> 1]
WindowLog(o) == [name |-> "WindowLog", value |-> o.window_log]

\* encoder.set_parameter(p)?
set_parameter(p, next) ==
  \E ok \in BOOLEAN :
    /\ trace' = Append(trace, Op(p.name, p.value, ok))
    /\ IF ok
         THEN /\ encoder' = [encoder EXCEPT !.params = Append(@, p)]
              /\ pc' = next
              /\ result' = result
         ELSE /\ encoder' = encoder
              /\ pc' = "err"
              /\ result' = Err
    /\ UNCHANGED <<fs, object_paths, opts, pack_file, i, file, bytes,
                   processed_bytes, reporter, checksum_vars, list_vars>>

\* line 69
SetNbWorkers == pc = "nb_workers" /\ set_parameter(NbWorkers(opts), "ldm")
\* line 70
SetLongDistanceMatching ==
  pc = "ldm" /\ set_parameter(EnableLongDistanceMatching(opts), "window_log")
\* lines 71-73
SetWindowLog == pc = "window_log" /\ set_parameter(WindowLog(opts), "loop")

\* line 75: the next (i, obj) of object_paths.iter().enumerate(), or loop exit
LoopNext ==
  /\ pc = "loop"
  /\ pc' = IF i < Len(object_paths) THEN "open" ELSE "final"
  /\ UNCHANGED <<fs, object_paths, opts, encoder, pack_file, i, file, bytes,
                 processed_bytes, reporter, result, trace, checksum_vars, list_vars>>

\* OpenFile skipping a file that cannot be opened instead of returning
OpenFile_skip ==
  /\ pc = "open"
  /\ \E ok \in BOOLEAN :
       /\ trace' = Append(trace, Op("open", i, ok))
       /\ IF ok
            THEN file' = object_paths[i + 1] /\ pc' = "copy" /\ i' = i
            ELSE file' = file /\ pc' = "loop" /\ i' = i + 1
  /\ UNCHANGED <<fs, object_paths, opts, encoder, pack_file, bytes,
                 processed_bytes, reporter, result, checksum_vars, list_vars>>

\* line 76: File::open(&obj)?
OpenFile ==
  /\ pc = "open"
  /\ \E ok \in BOOLEAN :
       /\ trace' = Append(trace, Op("open", i, ok))
       /\ IF ok
            THEN file' = object_paths[i + 1] /\ pc' = "copy" /\ result' = result
            ELSE file' = file /\ pc' = "err" /\ result' = Err
  /\ UNCHANGED <<fs, object_paths, opts, encoder, pack_file, i, bytes,
                 processed_bytes, reporter, checksum_vars, list_vars>>

\* io_copy putting the new bytes in front of the stream
io_copy_front(input, data) == data \o input

\* the encoder's input after io::copy pushed the bytes `data` into it
io_copy(input, data) == input \o data

\* CopyFile trying the file again after a failed copy
CopyFile_retry ==
  /\ pc = "copy"
  /\ \E ok \in BOOLEAN, n \in 0..Len(fs[file]) :
       /\ ok => n = Len(fs[file])
       /\ trace' = Append(trace, Op("copy", i, ok))
       /\ encoder' = [encoder EXCEPT !.input = io_copy(@, SubSeq(fs[file], 1, n))]
       /\ \E w \in {pack_file.written, pack_file.written \/ n > 0} :
            pack_file' = [pack_file EXCEPT !.written = w]
       /\ IF ok
            THEN bytes' = n /\ pc' = "add"
            ELSE bytes' = bytes /\ pc' = "open"
  /\ UNCHANGED <<fs, object_paths, opts, i, file, processed_bytes, reporter,
                 result, checksum_vars, list_vars>>

\* line 77: io::copy(&mut file, &mut encoder)?
\* On success the whole file is pushed; a read or write error stops the copy
\* after some prefix.  The encoder buffers: bytes pushed into it may or may
\* not have reached the sink yet.
CopyFile ==
  /\ pc = "copy"
  /\ \E ok \in BOOLEAN, n \in 0..Len(fs[file]) :
       /\ ok => n = Len(fs[file])
       /\ trace' = Append(trace, Op("copy", i, ok))
       /\ encoder' = [encoder EXCEPT !.input = io_copy(@, SubSeq(fs[file], 1, n))]
       /\ \E w \in {pack_file.written, pack_file.written \/ n > 0} :
            pack_file' = [pack_file EXCEPT !.written = w]
       /\ IF ok
            THEN bytes' = n /\ pc' = "add" /\ result' = result
            ELSE bytes' = bytes /\ pc' = "err" /\ result' = Err
  /\ UNCHANGED <<fs, object_paths, opts, i, file, processed_bytes, reporter,
                 checksum_vars, list_vars>>

\* AddBytes assigning instead of accumulating
AddBytes_assign ==
  /\ pc = "add"
  /\ processed_bytes' = bytes
  /\ pc' = "checkpoint"
  /\ UNCHANGED <<fs, object_paths, opts, encoder, pack_file, i, file, bytes,
                 reporter, result, trace, checksum_vars, list_vars>>

\* line 78: processed_bytes += bytes
AddBytes ==
  /\ pc = "add"
  /\ processed_bytes' = processed_bytes + bytes
  /\ pc' = "checkpoint"
  /\ UNCHANGED <<fs, object_paths, opts, encoder, pack_file, i, file, bytes,
                 reporter, result, trace, checksum_vars, list_vars>>

\* LoopCheckpoint reporting the list length as the remaining count
LoopCheckpoint_len(idx, len) == [done |-> idx, remaining |-> Some(len)]

\* LoopCheckpoint counting the file just copied as done
LoopCheckpoint_done(idx, len) == [done |-> idx + 1, remaining |-> Some(len - idx)]

\* the arguments of reporter.checkpoint at line 79
LoopCheckpoint(idx, len) == [done |-> idx, remaining |-> Some(len - idx)]

\* line 79: reporter.checkpoint(i, Some(object_paths.len() - i)); next iteration
Checkpoint ==
  /\ pc = "checkpoint"
  /\ reporter' = Append(reporter, LoopCheckpoint(i, Len(object_paths)))
  /\ trace' = Append(trace, Op("checkpoint", i, TRUE))
  /\ i' = i + 1
  /\ file' = 0
  /\ pc' = "loop"
  /\ UNCHANGED <<fs, object_paths, opts, encoder, pack_file, bytes,
                 processed_bytes, result, checksum_vars, list_vars>>

\* line 82: reporter.checkpoint(object_paths.len(), Some(0))
FinalCheckpoint ==
  /\ pc = "final"
  /\ reporter' = Append(reporter, [done |-> Len(object_paths), remaining |-> Some(0)])
  /\ trace' = Append(trace, Op("checkpoint", Len(object_paths), TRUE))
  /\ pc' = "finish"
  /\ UNCHANGED <<fs, object_paths, opts, encoder, pack_file, i, file, bytes,
                 processed_bytes, result, checksum_vars, list_vars>>

\* Finish without the call of encoder.finish()
Finish_forgotten ==
  /\ pc = "finish"
  /\ pc' = "return"
  /\ UNCHANGED <<fs, object_paths, opts, encoder, pack_file, i, file, bytes,
                 processed_bytes, reporter, result, trace, checksum_vars, list_vars>>

\* line 84: encoder.finish()?
Finish ==
  /\ pc = "finish"
  /\ \E ok \in BOOLEAN :
       /\ trace' = Append(trace, Op("finish", 0, ok))
       /\ IF ok
            THEN /\ encoder' = [encoder EXCEPT !.finished = @ + 1]
                 /\ pack_file' = [written |-> TRUE, complete |-> TRUE]
                 /\ pc' = "return"
                 /\ result' = result
            ELSE /\ encoder' = encoder
                 /\ \E w \in {pack_file.written, TRUE} :
                      pack_file' = [pack_file EXCEPT !.written = w]
                 /\ pc' = "err"
                 /\ result' = Err
  /\ UNCHANGED <<fs, object_paths, opts, i, file, bytes, processed_bytes,
                 reporter, checksum_vars, list_vars>>

\* line 85: Ok(processed_bytes)
Return ==
  /\ pc = "return"
  /\ result' = Ok(processed_bytes)
  /\ pc' = "done"
  /\ UNCHANGED <<fs, object_paths, opts, encoder, pack_file, i, file, bytes,
                 processed_bytes, reporter, trace, checksum_vars, list_vars>>

(* --------------------------- compute_checksums ------------------------- *)

Threads == 1..NumThreads
Idle == [at |-> "idle", x |-> 0]

\* Sha1 of a buffer.  The digest is modelled by an injective encoding of the
\* byte string (no two of the bounded contents collide, as for SHA-1).
RECURSIVE Sha1(_)
Sha1(buf) ==
  IF buf = <<>> THEN 0
  ELSE Sha1(SubSeq(buf, 1, Len(buf) - 1)) * (Cardinality(Bytes) + 1) + buf[Len(buf)] + 1

\* compute_checksums is called with some path list; no pool thread has a
\* scratch buffer yet (line 20)
ChecksumsCalled ==
  /\ paths \in SeqsUpTo(Files, MaxChecksumPaths)
  /\ tls_buf = [t \in Threads |-> <<>>]
  /\ task = [t \in Threads |-> Idle]
  /\ todo = 1..Len(paths)
  /\ mapped = [x \in 1..Len(paths) |-> Pending]
  /\ reordered = FALSE
  /\ reused = FALSE
  /\ checksums = Pending

\* place filling the positions in order of completion
place_next(m, x, r) ==
  IF \E y \in DOMAIN m : m[y].kind = "pending"
    THEN [m EXCEPT ![CHOOSE y \in DOMAIN m :
                       /\ m[y].kind = "pending"
                       /\ \A z \in 1..(y - 1) : m[z].kind # "pending"] = r]
    ELSE m

\* the collected results once item x has produced r: rayon's indexed collect
\* puts each result at the position of its item
place(m, x, r) == [m EXCEPT ![x] = r]

\* item x completes while an earlier item of the list has not
Overtakes(x) == \E y \in 1..(x - 1) : mapped[y].kind = "pending"

\* StartItem leaving the item in the iterator
StartItem_keep(t) ==
  /\ checksums = Pending
  /\ task[t] = Idle
  /\ \E x \in todo : task' = [task EXCEPT ![t] = [at |-> "open", x |-> x]]
  /\ tls_buf' = [tls_buf EXCEPT ![t] = <<>>]
  /\ reused' = (reused \/ tls_buf[t] # <<>>)
  /\ UNCHANGED <<fs, compress_vars, list_vars, paths, todo, mapped, reordered, checksums>>

\* StartItem without buf.clear()
StartItem_dirty(t) ==
  /\ checksums = Pending
  /\ task[t] = Idle
  /\ \E x \in todo :
       /\ todo' = todo \ {x}
       /\ task' = [task EXCEPT ![t] = [at |-> "open", x |-> x]]
  /\ reused' = (reused \/ tls_buf[t] # <<>>)
  /\ UNCHANGED <<fs, compress_vars, list_vars, paths, tls_buf, mapped, reordered,
                 checksums>>

\* lines 23-25: a pool thread picks up an item, borrows its buffer, clears it
StartItem(t) ==
  /\ checksums = Pending
  /\ task[t] = Idle
  /\ \E x \in todo :
       /\ todo' = todo \ {x}
       /\ task' = [task EXCEPT ![t] = [at |-> "open", x |-> x]]
  /\ tls_buf' = [tls_buf EXCEPT ![t] = <<>>]
  /\ reused' = (reused \/ tls_buf[t] # <<>>)
  /\ UNCHANGED <<fs, compress_vars, list_vars, paths, mapped, reordered, checksums>>

\* OpenItem opening the file for writing, which empties it
OpenItem_truncate(t) ==
  /\ task[t].at = "open"
  /\ fs' = [fs EXCEPT ![paths[task[t].x]] = <<>>]
  /\ \E ok \in BOOLEAN :
       IF ok
         THEN /\ task' = [task EXCEPT ![t].at = "read"]
              /\ UNCHANGED <<mapped, reordered>>
         ELSE /\ task' = [task EXCEPT ![t] = Idle]
              /\ mapped' = place(mapped, task[t].x, Err)
              /\ reordered' = (reordered \/ Overtakes(task[t].x))
  /\ UNCHANGED <<compress_vars, list_vars, paths, tls_buf, todo, reused, checksums>>

\* line 27: File::open(&x)?
OpenItem(t) ==
  /\ task[t].at = "open"
  /\ \E ok \in BOOLEAN :
       IF ok
         THEN /\ task' = [task EXCEPT ![t].at = "read"]
              /\ UNCHANGED <<mapped, reordered>>
         ELSE /\ task' = [task EXCEPT ![t] = Idle]
              /\ mapped' = place(mapped, task[t].x, Err)
              /\ reordered' = (reordered \/ Overtakes(task[t].x))
  /\ UNCHANGED <<fs, compress_vars, list_vars, paths, tls_buf, todo, reused, checksums>>

\* line 28: file.read_to_end(&mut buf)?
\* A failing read leaves the bytes read so far in the buffer.
ReadItem(t) ==
  /\ task[t].at = "read"
  /\ LET data == fs[paths[task[t].x]] IN
     \E ok \in BOOLEAN, n \in 0..Len(data) :
       /\ ok => n = Len(data)
       /\ tls_buf' = [tls_buf EXCEPT ![t] = @ \o SubSeq(data, 1, n)]
       /\ IF ok
            THEN /\ task' = [task EXCEPT ![t].at = "hash"]
                 /\ UNCHANGED <<mapped, reordered>>
            ELSE /\ task' = [task EXCEPT ![t] = Idle]
                 /\ mapped' = place(mapped, task[t].x, Err)
                 /\ reordered' = (reordered \/ Overtakes(task[t].x))
  /\ UNCHANGED <<fs, compress_vars, list_vars, paths, todo, reused, checksums>>

\* lines 30-34: hash the buffer, Ok(*checksum_buf)
HashItem(t) ==
  /\ task[t].at = "hash"
  /\ mapped' = place(mapped, task[t].x, Ok(Sha1(tls_buf[t])))
  /\ reordered' = (reordered \/ Overtakes(task[t].x))
  /\ task' = [task EXCEPT ![t] = Idle]
  /\ UNCHANGED <<fs, compress_vars, list_vars, paths, tls_buf, todo, reused, checksums>>

\* collect returning the checksums of the files that could be hashed
RECURSIVE OkValues(_)
OkValues(m) ==
  IF m = <<>> THEN <<>>
  ELSE LET rest == OkValues(SubSeq(m, 1, Len(m) - 1)) IN
       IF m[Len(m)].kind = "ok" THEN Append(rest, m[Len(m)].val) ELSE rest
collect_partial(m) == Ok(OkValues(m))

\* collect::<io::Result<Vec<_>>>() of the results m: the error if any item
\* failed, else the vector of all values
collect(m) ==
  IF \E x \in DOMAIN m : m[x].kind = "err"
    THEN Err
    ELSE Ok([x \in DOMAIN m |-> m[x].val])

\* line 36: the join.  Every started item has completed; items are left
\* unstarted only when an error short-circuited the iterator.
Collect ==
  /\ checksums = Pending
  /\ \A t \in Threads : task[t] = Idle
  /\ todo = {} \/ \E x \in DOMAIN mapped : mapped[x].kind = "err"
  /\ checksums' = collect(mapped)
  /\ UNCHANGED <<fs, compress_vars, list_vars, paths, tls_buf, task, todo, mapped,
                 reordered, reused>>

(* ------------------------------ list command -------------------------- *)

\* Strings are sequences of characters; a character is ordered by its code.
Chars == {" ", "%", ".", "0", "1", "2", "3", "4", "5", "6", "7", "8", "9",
          ":", "B", "a", "b", "h", "n", "p", "q", "s", "t"}
Code(c) ==
  CASE c = " " -> 32 [] c = "%" -> 37 [] c = "." -> 46
    [] c = "0" -> 48 [] c = "1" -> 49 [] c = "2" -> 50 [] c = "3" -> 51
    [] c = "4" -> 52 [] c = "5" -> 53 [] c = "6" -> 54 [] c = "7" -> 55
    [] c = "8" -> 56 [] c = "9" -> 57 [] c = ":" -> 58 [] c = "B" -> 66
    [] c = "a" -> 97 [] c = "b" -> 98 [] c = "h" -> 104 [] c = "n" -> 110
    [] c = "p" -> 112 [] c = "q" -> 113 [] c = "s" -> 115 [] c = "t" -> 116

\* a <= b for Strings (Ord for str: byte-wise lexicographic)
RECURSIVE StrLeq(_, _)
StrLeq(a, b) ==
  IF a = <<>> THEN TRUE
  ELSE IF b = <<>> THEN FALSE
  ELSE IF a[1] = b[1] THEN StrLeq(Tail(a), Tail(b))
  ELSE Code(a[1]) < Code(b[1])

\* u64::to_string and usize::to_string: the decimal digits
RECURSIVE to_string(_)
to_string(n) ==
  LET digit == <<"0", "1", "2", "3", "4", "5", "6", "7", "8", "9">>[(n % 10) + 1]
  IN IF n < 10 THEN <<digit>> ELSE Append(to_string(n \div 10), digit)

\* utils::format_size: a human-readable size, digits and a unit
format_size(size) == to_string(size) \o <<"B">>

\* Display of a PackId::Pack: the pack's name
PackIdToString(pack_id) == pack_id

\* str::replace: every non-overlapping match of `from`, left to right, is
\* replaced by `to`; the text put in is not searched again
RECURSIVE replace(_, _, _)
replace(str, from, to) ==
  IF Len(str) < Len(from) THEN str
  ELSE IF SubSeq(str, 1, Len(from)) = from
    THEN to \o replace(SubSeq(str, Len(from) + 1, Len(str)), from, to)
    ELSE <<str[1]>> \o replace(Tail(str), from, to)

\* lines 56-69
format_snapshot_row(fmt, pack_id, snapshot, size, file_count) ==
  LET r1 == replace(fmt, <<"%", "s">>, PackIdToString(pack_id) \o <<":">> \o snapshot)
      r2 == replace(r1, <<"%", "t">>, snapshot)
      r3 == replace(r2, <<"%", "h">>, format_size(size))
      r4 == replace(r3, <<"%", "b">>, to_string(size))
  IN replace(r4, <<"%", "n">>, to_string(file_count))

\* lines 81-82: file_size, the sum of the entries' sizes
RECURSIVE SumSizes(_)
SumSizes(entries) ==
  IF entries = <<>> THEN 0 ELSE entries[1] + SumSizes(Tail(entries))

\* lines 81-86: the row of one snapshot of a pack
RowOf(fmt, pack_id, snap) ==
  format_snapshot_row(fmt, pack_id, snap.name, SumSizes(snap.entries),
                      Len(snap.entries))

\* sort leaving the rows as collected
sort_none(rows) == rows

\* line 91: lines.sort()
RECURSIVE sort(_)
sort(rows) ==
  IF rows = <<>> THEN <<>>
  ELSE LET least == CHOOSE k \in DOMAIN rows :
                      \A m \in DOMAIN rows : StrLeq(rows[k], rows[m])
       IN <<rows[least]>> \o
          sort(SubSeq(rows, 1, least - 1) \o SubSeq(rows, least + 1, Len(rows)))

\* the inputs tried
PackNames == {<<"p">>, <<"q">>}
Formats == {<<"%", "s">>, <<"%", "n", " ", "%", "t">>, <<"%", "h", "%", "b">>}
Snapshot(name, entries) == [name |-> name, entries |-> entries]
\* a pack's index: whether it loads, whether its snapshots can all be visited
Index(load, iter, snapshots) == [load |-> load, iter |-> iter, snapshots |-> snapshots]
Indexes ==
  { Index(FALSE, TRUE, <<>>),
    Index(TRUE, TRUE, <<>>),
    Index(TRUE, TRUE, <<Snapshot(<<"a">>, <<1>>)>>),
    Index(TRUE, TRUE, <<Snapshot(<<"b">>, <<5, 7>>), Snapshot(<<"a">>, <<>>)>>),
    Index(TRUE, TRUE, <<Snapshot(<<"%", "n">>, <<2>>)>>),
    Index(TRUE, FALSE, <<Snapshot(<<"a">>, <<1>>)>>) }
Repositories ==
  [openable : BOOLEAN, enumerable : BOOLEAN, index : [PackNames -> Indexes]]

\* repo.packs(): the packs of the repository
RepoPacks == <<<<"p">>, <<"q">>>>

\* the non-empty argument lists clap can hand over
PackArguments == SeqsUpTo(PackNames, MaxListPacks) \ {<<>>}

\* the list command is started (line 12)
ListCalled ==
  /\ matches \in [pack : {None} \cup {Some(a) : a \in PackArguments},
                  format : Formats]
  /\ repo \in Repositories
  /\ step = "open_repo"
  /\ packs = <<>>
  /\ pack_no = 0
  /\ snap_no = 0
  /\ lines = <<>>
  /\ stdout = <<>>
  /\ run_result = Pending

\* the list command is not running
ListNotCalled ==
  /\ matches = [pack |-> None, format |-> <<"%", "s">>]
  /\ repo = [openable |-> TRUE, enumerable |-> TRUE,
             index |-> [n \in PackNames |-> Index(TRUE, TRUE, <<>>)]]
  /\ step = "idle"
  /\ packs = <<>>
  /\ pack_no = 0
  /\ snap_no = 0
  /\ lines = <<>>
  /\ stdout = <<>>
  /\ run_result = Pending

\* a `?` returning the error from run
Fails ==
  /\ step' = "failed"
  /\ run_result' = Err

\* lines 13-18: the arguments are read, open_repo_from_cwd()?
OpenRepo ==
  /\ step = "open_repo"
  /\ IF repo.openable
       THEN step' = "packs" /\ run_result' = run_result
       ELSE Fails
  /\ UNCHANGED <<fs, compress_vars, checksum_vars, matches, repo, packs,
                 pack_no, snap_no, lines, stdout>>

\* lines 20-22: packs.map(..).unwrap_or(repo.packs()?).  The argument of
\* unwrap_or is evaluated before unwrap_or is called, whatever `packs` is.
ResolvePacks ==
  /\ step = "packs"
  /\ IF repo.enumerable
       THEN /\ packs' = IF matches.pack # None THEN matches.pack[1] ELSE RepoPacks
            /\ step' = "next_pack"
            /\ run_result' = run_result
       ELSE /\ packs' = packs
            /\ Fails
  /\ UNCHANGED <<fs, compress_vars, checksum_vars, matches, repo, pack_no,
                 snap_no, lines, stdout>>

\* lines 76-78: the next pack_id of pack_ids, or the end of the loop
NextPack ==
  /\ step = "next_pack"
  /\ step' = IF pack_no < Len(packs) THEN "load_index" ELSE "sort"
  /\ UNCHANGED <<fs, compress_vars, checksum_vars, matches, repo, packs,
                 pack_no, snap_no, lines, stdout, run_result>>

\* the index of the pack being collected
CurrentIndex == repo.index[packs[pack_no + 1]]

\* line 79: repo.load_index(pack_id)?
LoadIndex ==
  /\ step = "load_index"
  /\ IF CurrentIndex.load
       THEN step' = "for_each" /\ run_result' = run_result
       ELSE Fails
  /\ snap_no' = 0
  /\ UNCHANGED <<fs, compress_vars, checksum_vars, matches, repo, packs,
                 pack_no, lines, stdout>>

\* lines 80-87: the closure is called for the next snapshot and pushes its row
EachSnapshot ==
  /\ step = "for_each"
  /\ snap_no < Len(CurrentIndex.snapshots)
  /\ lines' = Append(lines, RowOf(matches.format, packs[pack_no + 1],
                                  CurrentIndex.snapshots[snap_no + 1]))
  /\ snap_no' = snap_no + 1
  /\ UNCHANGED <<fs, compress_vars, checksum_vars, matches, repo, step, packs,
                 pack_no, stdout, run_result>>

\* line 88: for_each_snapshot(..)? fails, before or after some snapshots
ForEachFails ==
  /\ step = "for_each"
  /\ ~CurrentIndex.iter
  /\ Fails
  /\ UNCHANGED <<fs, compress_vars, checksum_vars, matches, repo, packs,
                 pack_no, snap_no, lines, stdout>>

\* lines 88-89: for_each_snapshot returns Ok, on to the next pack
ForEachDone ==
  /\ step = "for_each"
  /\ CurrentIndex.iter
  /\ snap_no = Len(CurrentIndex.snapshots)
  /\ pack_no' = pack_no + 1
  /\ step' = "next_pack"
  /\ UNCHANGED <<fs, compress_vars, checksum_vars, matches, repo, packs,
                 snap_no, lines, stdout, run_result>>

\* line 91: lines.sort()
SortLines ==
  /\ step = "sort"
  /\ lines' = sort(lines)
  /\ step' = "print"
  /\ UNCHANGED <<fs, compress_vars, checksum_vars, matches, repo, packs,
                 pack_no, snap_no, stdout, run_result>>

\* lines 93-95: println!("{}", line) for the next line
PrintLine ==
  /\ step = "print"
  /\ Len(stdout) < Len(lines)
  /\ stdout' = Append(stdout, lines[Len(stdout) + 1])
  /\ UNCHANGED <<fs, compress_vars, checksum_vars, matches, repo, step, packs,
                 pack_no, snap_no, lines, run_result>>

\* lines 97 and 24-26: Ok(())
ReturnOk ==
  /\ step = "print"
  /\ Len(stdout) = Len(lines)
  /\ step' = "done"
  /\ run_result' = Ok(0)
  /\ UNCHANGED <<fs, compress_vars, checksum_vars, matches, repo, packs,
                 pack_no, snap_no, lines, stdout>>

(* ---------------------------- specifications --------------------------- *)

\* nothing of compute_checksums is running
ChecksumsNotCalled ==
  /\ paths = <<>>
  /\ tls_buf = [t \in Threads |-> <<>>]
  /\ task = [t \in Threads |-> Idle]
  /\ todo = {}
  /\ mapped = <<>>
  /\ reordered = FALSE
  /\ reused = FALSE
  /\ checksums = Pending

\* nothing of compress_files is running
CompressNotCalled ==
  /\ object_paths = <<>>
  /\ opts = [level |-> 3, window_log |-> 27, num_workers |-> 1]
  /\ pc = "idle"
  /\ encoder = NoEncoder
  /\ pack_file = [written |-> FALSE, complete |-> FALSE]
  /\ i = 0
  /\ file = 0
  /\ bytes = 0
  /\ processed_bytes = 0
  /\ reporter = <<>>
  /\ result = Pending
  /\ trace = <<>>

\* one call of compress_files
Init ==
  /\ fs \in [Files -> Contents]
  /\ CompressCalled
  /\ ChecksumsNotCalled
  /\ ListNotCalled

Next ==
  \/ AssertWorkers
  \/ EncoderNew
  \/ SetNbWorkers
  \/ SetLongDistanceMatching
  \/ SetWindowLog
  \/ LoopNext
  \/ OpenFile
  \/ CopyFile
  \/ AddBytes
  \/ Checkpoint
  \/ FinalCheckpoint
  \/ Finish
  \/ Return

Spec == Init /\ [][Next]_vars

\* one call of compute_checksums
\* the file contents the checksums are tried on: empty, one byte, two bytes
ChecksumContents == {<<>>, <<0>>, <<0, 1>>}

InitChecksums ==
  /\ fs \in [Files -> ChecksumContents]
  /\ ChecksumsCalled
  /\ CompressNotCalled
  /\ ListNotCalled

NextChecksums ==
  \/ \E t \in Threads : StartItem(t)
  \/ \E t \in Threads : OpenItem(t)
  \/ \E t \in Threads : ReadItem(t)
  \/ \E t \in Threads : HashItem(t)
  \/ Collect

SpecChecksums == InitChecksums /\ [][NextChecksums]_vars

\* one run of the list command
InitList ==
  /\ fs \in [Files -> {<<>>}]
  /\ ListCalled
  /\ CompressNotCalled
  /\ ChecksumsNotCalled

NextList ==
  \/ OpenRepo
  \/ ResolvePacks
  \/ NextPack
  \/ LoadIndex
  \/ EachSnapshot
  \/ ForEachFails
  \/ ForEachDone
  \/ SortLines
  \/ PrintLine
  \/ ReturnOk

SpecList == InitList /\ [][NextList]_vars

\* the path lists handed to both operations when they run side by side
JointLists == {<<>>, <<1>>, <<1, 2>>}
\* the contents of the files then: one byte or two
JointContents == {<<0>>, <<0, 1>>}

\* compress_files and compute_checksums are called over the same list at
\* the same time, on different threads
InitBoth ==
  /\ fs \in [Files -> JointContents]
  /\ object_paths \in JointLists
  /\ paths = object_paths
  /\ CompressCalled
  /\ ChecksumsCalled
  /\ ListNotCalled

NextBoth ==
  \/ Next
  \/ NextChecksums

SpecBoth == InitBoth /\ [][NextBoth]_vars

\* both calls keep running: the thread in compress_files goes on as long as
\* each of its calls returns, and the pool keeps working on the items
FairBoth == SpecBoth /\ WF_vars(Next) /\ WF_vars(NextChecksums)

(* ------------------------------ properties ----------------------------- *)

NumPaths == Len(object_paths)

\* the contents of the first k listed files, one after the other
RECURSIVE Concatenation(_, _)
Concatenation(ps, k) ==
  IF k = 0 THEN <<>> ELSE Concatenation(ps, k - 1) \o fs[ps[k]]

\* the sizes of the first k listed files, added up
RECURSIVE TotalSize(_, _)
TotalSize(ps, k) ==
  IF k = 0 THEN 0 ELSE TotalSize(ps, k - 1) + Len(fs[ps[k]])

\* open 0, copy 0, open 1, copy 1, ... for the first k files, all succeeding
RECURSIVE OneAtATime(_)
OneAtATime(k) ==
  IF k = 0 THEN <<>>
  ELSE OneAtATime(k - 1) \o <<Op("open", k - 1, TRUE), Op("copy", k - 1, TRUE)>>

IsOpenOrCopy(op) == op[1] \in {"open", "copy"}
IsCheckpoint(op) == op[1] = "checkpoint"
IsFinish(op) == op[1] = "finish"
IsSetParameter(op) ==
  op[1] \in {"NbWorkers", "EnableLongDistanceMatching", "WindowLog"}
Failed(op) == ~op[3]
Positions(P(_)) == {p \in DOMAIN trace : P(trace[p])}

\* C1: a successful compute_checksums returns one checksum per path, and the
\* checksum at position x is the digest of the content of paths[x], whatever
\* thread hashed it and whenever it completed.
C1_ChecksumsPositional ==
  checksums.kind = "ok" =>
    /\ Len(checksums.val) = Len(paths)
    /\ \A x \in 1..Len(paths) : checksums.val[x] = Sha1(fs[paths[x]])

\* a successful call over files of different content, hashed by two different
\* threads, in which an item completed before an earlier one
C1_Witness ==
  /\ checksums.kind = "ok"
  /\ Len(paths) >= 2
  /\ fs[paths[1]] # fs[paths[Len(paths)]]
  /\ reordered
  /\ \E t, u \in Threads : t # u /\ tls_buf[t] # <<>> /\ tls_buf[u] # <<>>
                           /\ tls_buf[t] # tls_buf[u]

\* C2: compute_checksums is all-or-nothing: when the open or the read of some
\* file failed the call returns the error and no list, and it returns a list
\* only when every file was hashed.
C2_ChecksumsAllOrNothing ==
  /\ (checksums # Pending /\ \E x \in DOMAIN mapped : mapped[x].kind = "err")
       => checksums = Err
  /\ checksums.kind = "ok" => \A x \in DOMAIN mapped : mapped[x].kind = "ok"
  /\ checksums.kind \in {"pending", "ok", "err"}

\* the call failed although some file had been hashed successfully
C2_Witness ==
  /\ checksums = Err
  /\ \E x \in DOMAIN mapped : mapped[x].kind = "ok"
  /\ \E x \in DOMAIN mapped : mapped[x].kind = "err"

\* C3: on success the bytes submitted to the encoder are the concatenation of
\* the files' contents in list order, the files having been opened and copied
\* one at a time in list order, each once.
C3_EncoderInputIsConcatenation ==
  /\ pc = "loop" => encoder.input = Concatenation(object_paths, i)
  /\ pc = "done" =>
       /\ encoder.input = Concatenation(object_paths, NumPaths)
       /\ SelectSeq(trace, IsOpenOrCopy) = OneAtATime(NumPaths)

\* a successful run over at least two files of different non-empty content
C3_Witness ==
  /\ pc = "done"
  /\ NumPaths >= 2
  /\ fs[object_paths[1]] # <<>>
  /\ fs[object_paths[2]] # <<>>
  /\ fs[object_paths[1]] # fs[object_paths[2]]

\* C4: on success the returned value is the sum of the sizes of all input
\* files (0 for the empty list), and the running total after file i has been
\* accounted is the sum of the sizes of files 0..i.
C4_ProcessedBytesIsTotalSize ==
  /\ pc = "checkpoint" => processed_bytes = TotalSize(object_paths, i + 1)
  /\ pc = "loop" => processed_bytes = TotalSize(object_paths, i)
  /\ pc = "done" => result = Ok(TotalSize(object_paths, NumPaths))

\* a successful run that returned the sum of at least two non-zero sizes
C4_Witness ==
  /\ pc = "done"
  /\ NumPaths >= 2
  /\ \A k \in 1..NumPaths : fs[object_paths[k]] # <<>>
  /\ result.val >= 2

\* C5: a successful run over n files reports exactly n+1 checkpoints: one
\* right after each file's copy, in list order, the first argument strictly
\* increasing and the remaining count strictly decreasing, then one final
\* (n, 0); no checkpoint of a file precedes the end of that file's copy.
C5_CheckpointsOncePerFile ==
  /\ \A p \in Positions(IsCheckpoint) :
       trace[p][2] < NumPaths =>
         /\ p > 1
         /\ trace[p - 1] = Op("copy", trace[p][2], TRUE)
         /\ Cardinality({q \in Positions(IsCheckpoint) : q <= p}) = trace[p][2] + 1
  /\ \A k \in 1..(Len(reporter) - 1) :
       /\ reporter[k].done < reporter[k + 1].done
       /\ reporter[k].remaining # None
       /\ reporter[k + 1].remaining # None
       /\ reporter[k].remaining[1] > reporter[k + 1].remaining[1]
  /\ pc = "done" =>
       /\ Len(reporter) = NumPaths + 1
       /\ reporter[NumPaths + 1] = [done |-> NumPaths, remaining |-> Some(0)]
       /\ SelectSeq(trace, IsCheckpoint)
            = [k \in 1..(NumPaths + 1) |-> Op("checkpoint", k - 1, TRUE)]

\* a successful run over a longest list
C5_Witness == pc = "done" /\ NumPaths = MaxPaths /\ Len(reporter) = MaxPaths + 1

\* the number of files copied into the encoder before operation p of the run
CopiedBefore(p) ==
  Cardinality({q \in 1..(p - 1) : trace[q][1] = "copy" /\ trace[q][3]})

\* the report made by operation p of the run, a checkpoint
ReportOf(p) == reporter[Cardinality({q \in Positions(IsCheckpoint) : q <= p})]

\* C6: the checkpoint issued right after the file at index i has been copied
\* reports i as first argument and, as second, the number of input files not
\* yet copied into the encoder at the moment of the call.
C6_RemainingIsFilesNotYetCopied ==
  \A p \in Positions(IsCheckpoint) :
    trace[p][2] < NumPaths =>
      /\ ReportOf(p).done = trace[p][2]
      /\ ReportOf(p).remaining = Some(NumPaths - CopiedBefore(p))

\* C7: with num_workers = 0 the assertion fails before the encoder is
\* created, before any parameter is set, before any file is opened, before
\* any byte reaches the sink and before any checkpoint.
C7_ZeroWorkersPanicsFirst ==
  opts.num_workers = 0 /\ pc # "idle" =>
    /\ pc \in {"assert", "panic"}
    /\ encoder = NoEncoder
    /\ trace = <<>>
    /\ pack_file = [written |-> FALSE, complete |-> FALSE]
    /\ reporter = <<>>
    /\ file = 0
    /\ result \in {Pending, Panicked}

\* the assertion has failed
C7_Witness == opts.num_workers = 0 /\ pc = "panic" /\ result = Panicked

\* C8: when a step fails (encoder creation, a parameter, an open, a copy) the
\* call returns an error, never a byte count, and encoder.finish() is never
\* executed in that run; the run finishes only when no step failed.
C8_FailureNeverFinishes ==
  /\ (\E p \in DOMAIN trace : Failed(trace[p]) /\ ~IsFinish(trace[p])) =>
       /\ pc = "err"
       /\ result = Err
       /\ encoder.finished = 0
       /\ Positions(IsFinish) = {}
       /\ ~pack_file.complete
  /\ (\E p \in DOMAIN trace : Failed(trace[p])) => result = Err
  /\ (encoder.finished > 0 \/ pc \in {"return", "done"} \/ result.kind = "ok")
       => \A p \in DOMAIN trace : ~Failed(trace[p])

\* the copy of the second or a later file failed
C8_Witness ==
  /\ pc = "err"
  /\ trace # <<>>
  /\ trace[Len(trace)][1] = "copy"
  /\ Failed(trace[Len(trace)])
  /\ i >= 1

\* C9: on a successful run the encoder is finalized exactly once, as the last
\* operation: after every copy, every per-file checkpoint and the final
\* (n, 0) checkpoint; nothing is written or reported after it.
C9_FinishOnceAndLast ==
  /\ \A p \in Positions(IsFinish) : p = Len(trace)
  /\ encoder.finished > 0 => encoder.input = Concatenation(object_paths, NumPaths)
  /\ pc = "done" =>
       /\ encoder.finished = 1
       /\ pack_file = [written |-> TRUE, complete |-> TRUE]
       /\ Len(trace) >= 2
       /\ trace[Len(trace)] = Op("finish", 0, TRUE)
       /\ trace[Len(trace) - 1] = Op("checkpoint", NumPaths, TRUE)
       /\ reporter[Len(reporter)] = [done |-> NumPaths, remaining |-> Some(0)]

\* a successful run over at least one file
C9_Witness == pc = "done" /\ NumPaths >= 1 /\ encoder.finished = 1

\* the state of the encoding session
SessionState ==
  CASE pc \in {"err", "panic"} -> "Error"
    [] encoder.finished > 0 -> "Finished"
    [] Len(encoder.params) < 3 -> "Uninitialized"
    [] pc = "loop" /\ i = 0 -> "Configured"
    [] OTHER -> "Streaming"

\* the parameters of a configured session
Configuration ==
  << [name |-> "NbWorkers", value |-> opts.num_workers - 1],
     [name |-> "EnableLongDistanceMatching", value |-> 1],
     [name |-> "WindowLog", value |-> opts.window_log] >>

\* the parameters are those of the options, each set once, all before the
\* first open, copy or checkpoint, a failing one ending the run
ConfiguredBeforeStreaming ==
  /\ SessionState \in {"Configured", "Streaming", "Finished"}
       => encoder.params = Configuration
  /\ Positions(IsOpenOrCopy) # {} => encoder.params = Configuration
  /\ encoder.params = SubSeq(Configuration, 1, Len(encoder.params))
  /\ \A p \in Positions(IsSetParameter) :
       /\ \A q \in Positions(IsOpenOrCopy) \cup Positions(IsCheckpoint) : p < q
       /\ \A q \in Positions(IsSetParameter) : trace[q][1] = trace[p][1] => q = p
       /\ Failed(trace[p]) => p = Len(trace)

\* the moves of a session
SessionMoves ==
  { <<"Uninitialized", "Uninitialized">>, <<"Uninitialized", "Configured">>,
    <<"Configured", "Streaming">>, <<"Streaming", "Streaming">>,
    <<"Streaming", "Finished">>, <<"Finished", "Finished">>,
    <<"Uninitialized", "Error">>, <<"Streaming", "Error">> }

\* C10: the session goes Uninitialized -> Configured -> Streaming -> Finished;
\* each of the three parameters (helper threads = num_workers - 1, long
\* distance matching on, window log) is set exactly once, before the first
\* file is opened, and never changed; a failing parameter precedes every open
\* and every checkpoint.
C10_ConfiguredOnceBeforeStreaming ==
  /\ []ConfiguredBeforeStreaming
  /\ [][LET from == SessionState
            to == SessionState'
        IN /\ <<from, to>> \in SessionMoves
           /\ Len(encoder.params) = 3 => encoder.params' = encoder.params]_vars

\* a configured session with two helper threads is streaming its second file
C10_Witness ==
  /\ SessionState = "Streaming"
  /\ opts.num_workers = 2
  /\ pc = "copy"
  /\ i = 1

\* C11: the checksum of a file depends only on the file's bytes: every item
\* that was hashed got the digest of its file's content, and items of equal
\* content got equal checksums, whatever the path, the position, the thread,
\* the schedule, and whatever an earlier file (also one whose read failed
\* part-way) had left in the thread's buffer.
C11_ChecksumOfContentOnly ==
  /\ \A x \in DOMAIN mapped :
       mapped[x].kind = "ok" => mapped[x].val = Sha1(fs[paths[x]])
  /\ \A x, y \in DOMAIN mapped :
       (mapped[x].kind = "ok" /\ mapped[y].kind = "ok"
          /\ fs[paths[x]] = fs[paths[y]]) => mapped[x].val = mapped[y].val
  /\ \A t \in Threads :
       task[t].at = "hash" => tls_buf[t] = fs[paths[task[t].x]]

\* a thread whose read of one file failed part-way, leaving bytes in its
\* buffer, went on to hash an empty file
C11_Witness ==
  /\ reused
  /\ \E x, y \in DOMAIN mapped :
       /\ mapped[x] = Err
       /\ mapped[y].kind = "ok"
       /\ fs[paths[y]] = <<>>
       /\ fs[paths[x]] # <<>>

\* the first k per-file reports, as the code issues them
FirstReports(k) == [j \in 1..k |-> [done |-> j - 1, remaining |-> Some(NumPaths - j + 1)]]

\* the run stopped at the failed open or copy of the file at index k
FailedAtFile(k) ==
  /\ trace # <<>>
  /\ IsOpenOrCopy(trace[Len(trace)])
  /\ Failed(trace[Len(trace)])
  /\ trace[Len(trace)][2] = k

\* C14: compress_files is fail-fast: when the open or the copy of the file at
\* index k fails, the run ends there: no later file is opened, nothing more
\* goes into the encoder, the progress sink has exactly the k checkpoints of
\* files 0..k-1 (none for file k, no final one), and no step is tried again.
C14_FailFast ==
  /\ [](\A p \in Positions(IsOpenOrCopy) :
          Failed(trace[p]) =>
            /\ p = Len(trace)
            /\ pc = "err"
            /\ result = Err
            /\ reporter = FirstReports(trace[p][2])
            /\ encoder.finished = 0
            /\ \A q \in Positions(IsOpenOrCopy) :
                 /\ trace[q][2] <= trace[p][2]
                 /\ (q # p /\ trace[q][1] = trace[p][1]) => trace[q][2] < trace[p][2])
  /\ [][pc # "err"]_vars

\* the copy of the last of three files failed after part of it was pushed
C14_Witness ==
  /\ FailedAtFile(2)
  /\ trace[Len(trace)][1] = "copy"
  /\ Len(reporter) = 2
  /\ Len(encoder.input) > Len(Concatenation(object_paths, 2))

\* C16: every checkpoint of a run over n files, the run succeeding or not and
\* the final checkpoint included, has completed + remaining = n, a remaining
\* argument that is present, and 0 <= completed <= n.
C16_CheckpointsAddUp ==
  \A k \in DOMAIN reporter :
    /\ reporter[k].remaining # None
    /\ reporter[k].done + reporter[k].remaining[1] = NumPaths
    /\ 0 <= reporter[k].done
    /\ reporter[k].done <= NumPaths
    /\ 0 <= reporter[k].remaining[1]

\* a failing run that had reported two files, and a successful one over three
C16_Witness ==
  \/ pc = "err" /\ Len(reporter) = 2 /\ NumPaths = 3
  \/ pc = "done" /\ Len(reporter) = 4

\* what compress_files running alone leaves behind on success
CompressAloneResult ==
  /\ result = Ok(TotalSize(object_paths, NumPaths))
  /\ encoder.input = Concatenation(object_paths, NumPaths)
  /\ reporter = Append(FirstReports(NumPaths), [done |-> NumPaths, remaining |-> Some(0)])

\* what compute_checksums running alone returns on success
ChecksumsAloneResult ==
  checksums = Ok([x \in 1..Len(paths) |-> Sha1(fs[paths[x]])])

\* C12: compute_checksums and compress_files running side by side over the
\* same unchanging files do not interact: every step of one is a step of that
\* operation running alone and leaves the other's state and the files alone,
\* and each success gives the result, the checkpoints and the encoder input of
\* the operation running alone.
C12_NoInteraction ==
  /\ [](pc = "done" => CompressAloneResult)
  /\ [](checksums.kind = "ok" => ChecksumsAloneResult)
  /\ [][/\ fs' = fs
        /\ compress_vars' # compress_vars => (checksum_vars' = checksum_vars /\ Next)
        /\ checksum_vars' # checksum_vars
             => (compress_vars' = compress_vars /\ NextChecksums)]_vars

\* both are half-way, each reading the same file, the pool having already
\* hashed another
C12_Witness ==
  /\ pc = "copy"
  /\ \E t \in Threads : task[t].at = "read" /\ paths[task[t].x] = file
  /\ \E x \in DOMAIN mapped : mapped[x].kind = "ok"

\* C15: as long as every open, read and write returns, both operations
\* terminate: compress_files reaches Finished or the error state (or fails
\* its assertion when num_workers = 0), compute_checksums returns the list or
\* an error, and neither goes back to an earlier file.
C15_BothTerminate ==
  /\ <>(pc \in {"done", "err"} \/ (opts.num_workers = 0 /\ pc = "panic"))
  /\ <>(checksums.kind \in {"ok", "err"})
  /\ [][i' >= i /\ todo' \subseteq todo]_vars

\* both have returned, compress_files after its last file
C15_Witness ==
  /\ pc = "done"
  /\ NumPaths = 2
  /\ i = 2
  /\ checksums.kind = "ok"
  /\ todo = {}


(* --------------------------- claims on the list command ---------------- *)

\* the value documented for a placeholder character (lines 39-53)
PlaceholderValue(c, pack_id, snapshot, size, file_count) ==
  CASE c = "s" -> PackIdToString(pack_id) \o <<":">> \o snapshot
    [] c = "t" -> snapshot
    [] c = "h" -> format_size(size)
    [] c = "b" -> to_string(size)
    [] c = "n" -> to_string(file_count)

\* the format with every placeholder of the format replaced by its value and
\* nothing else changed: one pass over the format, inserted text left alone
RECURSIVE Documented(_, _, _, _, _)
Documented(fmt, pack_id, snapshot, size, file_count) ==
  IF Len(fmt) < 2 THEN fmt
  ELSE IF fmt[1] = "%" /\ fmt[2] \in {"s", "t", "h", "b", "n"}
    THEN PlaceholderValue(fmt[2], pack_id, snapshot, size, file_count) \o
         Documented(SubSeq(fmt, 3, Len(fmt)), pack_id, snapshot, size, file_count)
    ELSE <<fmt[1]>> \o
         Documented(Tail(fmt), pack_id, snapshot, size, file_count)

\* C13: the row format_snapshot_row returns for a snapshot is the format with
\* each placeholder of the format replaced by its documented value, the text
\* put in for a placeholder appearing verbatim.  The code does not satisfy it:
\* a tag "%n" under the format "%s" comes out as "p:1", not "p:%n".
C13_RowAsDocumented ==
  (step = "for_each" /\ snap_no >= 1) =>
    LET snap == CurrentIndex.snapshots[snap_no]
    IN lines[Len(lines)] =
         Documented(matches.format, packs[pack_no + 1], snap.name,
                    SumSizes(snap.entries), Len(snap.entries))

\* the snapshots requested: <<k, j>> is snapshot j of the k-th pack given
RequestedSnapshots ==
  UNION {{<<k, j>> : j \in DOMAIN repo.index[packs[k]].snapshots} :
         k \in DOMAIN packs}

\* the row due for a requested snapshot
RowDue(kj) ==
  RowOf(matches.format, packs[kj[1]],
        repo.index[packs[kj[1]]].snapshots[kj[2]])

\* rows in ascending lexicographic order
Ascending(rows) ==
  \A k \in 1..(Len(rows) - 1) : StrLeq(rows[k], rows[k + 1])

\* rows holds exactly one row per requested snapshot
OneRowPerSnapshot(rows) ==
  /\ Len(rows) = Cardinality(RequestedSnapshots)
  /\ \A kj \in RequestedSnapshots :
       Cardinality({k \in DOMAIN rows : rows[k] = RowDue(kj)}) =
       Cardinality({other \in RequestedSnapshots : RowDue(other) = RowDue(kj)})

\* every requested pack loads and lets its snapshots be visited
AllRequestedReadable ==
  \A k \in DOMAIN packs :
    repo.index[packs[k]].load /\ repo.index[packs[k]].iter

\* C17: print_snapshots prints all or nothing, in order: when it returns an
\* error no row has been printed, a row is printed only after the rows of all
\* requested packs were collected, and on success the output is exactly one
\* row per snapshot of every requested pack in ascending order of the row
\* text, whatever the order the packs were given in.
C17_AllOrNothingSorted ==
  /\ (run_result = Err => stdout = <<>>)
  /\ (stdout # <<>> =>
        /\ AllRequestedReadable
        /\ pack_no = Len(packs)
        /\ Len(lines) = Cardinality(RequestedSnapshots))
  /\ (step = "done" => Ascending(stdout) /\ OneRowPerSnapshot(stdout))

\* packs given as q then p: the rows of p are printed before the rows of q
C17_Witness ==
  /\ step = "done"
  /\ matches.format = <<"%", "s">>
  /\ packs = <<<<"q">>, <<"p">>>>
  /\ Len(stdout) >= 3
  /\ stdout[1][1] = "p"
  /\ stdout[Len(stdout)][1] = "q"

\* C18: with explicit pack arguments the outcome depends only on the packs
\* named: the command fails only if the repository cannot be opened or a named
\* pack cannot be read, never because repo.packs() failed.  The code does not
\* satisfy it: repo.packs()? is evaluated as the argument of unwrap_or.
C18_NamedPacksDecide ==
  (matches.pack # None /\ step = "failed") =>
    \/ ~repo.openable
    \/ \E k \in DOMAIN matches.pack[1] :
         LET index == repo.index[matches.pack[1][k]]
         IN ~index.load \/ ~index.iter

====
